---- MODULE Spec2Model ----
(***************************************************************************)
(* OraProm: an exporter that polls an Oracle database and republishes      *)
(* result columns as labelled Prometheus gauges.                           *)
(*                                                                         *)
(* The model follows src/app.py (query_set, oracle_keep_connection,        *)
(* get_labels_list, start_prometheus_exporter) and src/oraProm/ora.py      *)
(* (OracleConnection.connect / execute / close).                           *)
(*                                                                         *)
(* Python strings are sequences of one-character strings, so that the      *)
(* regular expression and SELECT tests are computed, not assumed.  Python  *)
(* dicts are functions from key strings; a key that is absent from a dict  *)
(* is absent from the function's DOMAIN.                                   *)
(*                                                                         *)
(* asyncio schedules the coroutines cooperatively and the only await of a  *)
(* coroutine is its asyncio.sleep, so one loop iteration of a coroutine    *)
(* (from waking up to the next sleep) is one atomic action.                *)
(***************************************************************************)
EXTENDS Integers, Sequences, FiniteSets, TLC

VARIABLES
  config_connections, \* config["connections"]: list of connection dicts
  config_queries,     \* config["queries"]: list of query dicts
  table,              \* rows the database returns for a SELECT (environment)
  registry,           \* exporter: metric name -> label keys given to create_gauge
  sink,               \* exporter: values held, one per (metric name, label map)
  conn,               \* per connection: OracleConnection.conn
  last,               \* record of the latest query_set iteration
  pc,                 \* per coroutine: where it stands
  running,            \* the coroutine the event loop is running, if any
  g_counters,         \* per query_set coroutine: its local g_counter
  held,               \* per query_set coroutine: what its close/connect left
  kfails              \* per connection: failed keeper attempts in a row

vars ==
  <<config_connections, config_queries, table, registry, sink, conn, last,
    pc, running, g_counters, held, kfails>>

----------------------------------------------------------------------------
(* Bounds of the explored inputs *)

MaxRows == 2

MaxCols == 3

MaxColRef == 3

\* failed keeper attempts in a row that are told apart
MaxKeeperFails == 1

----------------------------------------------------------------------------
(* Python primitives *)

DigitChars == <<"0", "1", "2", "3", "4", "5", "6", "7", "8", "9">>

DigitSet == {DigitChars[i] : i \in 1..10}

DigitVal(ch) == (CHOOSE i \in 1..10 : DigitChars[i] = ch) - 1

RECURSIVE PyInt(_)
PyInt(ds) ==
  IF ds = <<>> THEN 0
  ELSE 10 * PyInt(SubSeq(ds, 1, Len(ds) - 1)) + DigitVal(ds[Len(ds)])

UpperChars == <<"A","B","C","D","E","F","G","H","I","J","K","L","M",
                "N","O","P","Q","R","S","T","U","V","W","X","Y","Z">>

LowerChars == <<"a","b","c","d","e","f","g","h","i","j","k","l","m",
                "n","o","p","q","r","s","t","u","v","w","x","y","z">>

PyLowerChar(ch) ==
  IF \E i \in 1..26 : UpperChars[i] = ch
  THEN LowerChars[CHOOSE i \in 1..26 : UpperChars[i] = ch]
  ELSE ch

PyLower(s) == [i \in 1..Len(s) |-> PyLowerChar(s[i])]

WhiteSpace == {" ", "\t", "\n", "\r"}

RECURSIVE PyLStrip(_)
PyLStrip(s) ==
  IF s # <<>> /\ Head(s) \in WhiteSpace THEN PyLStrip(Tail(s)) ELSE s

RECURSIVE PyRStrip(_)
PyRStrip(s) ==
  IF s # <<>> /\ s[Len(s)] \in WhiteSpace
  THEN PyRStrip(SubSeq(s, 1, Len(s) - 1)) ELSE s

PyStrip(s) == PyRStrip(PyLStrip(s))

PyStartsWith(s, p) == Len(s) >= Len(p) /\ SubSeq(s, 1, Len(p)) = p

\* bool(x) of a list or tuple
Truthy(x) == Len(x) > 0

\* x[i] on a list or tuple, i zero-based, negative i counted from the end;
\* ok = FALSE stands for IndexError
PyIndex(x, i) ==
  IF 0 <= i /\ i < Len(x) THEN [ok |-> TRUE, val |-> x[i + 1]]
  ELSE IF i < 0 /\ -i <= Len(x) THEN [ok |-> TRUE, val |-> x[Len(x) + i + 1]]
  ELSE [ok |-> FALSE, val |-> <<>>]

\* a | b on dicts: the right operand wins on a common key
DictUnion(a, b) ==
  [k \in (DOMAIN a) \cup (DOMAIN b) |-> IF k \in DOMAIN b THEN b[k] ELSE a[k]]

EmptyDict == [k \in {} |-> <<>>]

----------------------------------------------------------------------------
(* oraProm.prometheus: the sentinel and the exporter's two calls *)

INVALID_LABEL_STR == <<"-">>

\* create_gauge(name, desc, labels): fixes the label keys of the metric
create_gauge(reg, name, labels) ==
  [n \in (DOMAIN reg) \cup {name} |-> IF n = name THEN labels ELSE reg[n]]

\* set_gauge(name, value, labels): the gauge's child for this label map
\* holds the value
set_gauge(s, name, value, labels) ==
  {e \in s : ~(e.name = name /\ e.labels = labels)}
    \cup {[name |-> name, labels |-> labels, value |-> value]}

----------------------------------------------------------------------------
(* OracleConnection (src/oraProm/ora.py) *)

NoConn == "None"

\* connect(): opens a session only when there is none; a failure leaves None
Connect(c, ok, who) ==
  IF c = NoConn THEN (IF ok THEN who ELSE NoConn) ELSE c

ConnectOpens(c, ok) == c = NoConn /\ ok

\* close(): self.conn = None is skipped when conn.close() raises
Close(c, ok) ==
  IF c # NoConn THEN (IF ok THEN NoConn ELSE c) ELSE c

SelectWord == <<"s", "e", "l", "e", "c", "t">>

\* "select" in query.lower(): the word anywhere in the text
IsSelectAnywhere(query) ==
  \E i \in 1..(Len(query) - Len(SelectWord) + 1) :
    \A j \in 1..Len(SelectWord) : PyLowerChar(query[i + j - 1]) = SelectWord[j]

\* query.strip().lower().startswith("select")
IsSelect(query) == PyStartsWith(PyLower(PyStrip(query)), SelectWord)

ExecOutcomes == {"ok", "DatabaseError", "Exception"}

\* a handler that hands back the rows of the query
ExecuteErrorRowsStale(rows) == rows

\* what execute returns when the driver raises: one empty row, [[]]
ExecuteErrorRows(rows) == << <<>> >>

\* execute(query, name): rows is what fetchall would return, outcome what
\* the driver does once the query is sent
Execute(c, query, outcome, rows) ==
  IF c = NoConn
  THEN [res |-> <<>>, sent |-> FALSE, failed |-> TRUE, rejected |-> FALSE]
  ELSE IF ~IsSelect(query)
  THEN [res |-> <<>>, sent |-> FALSE, failed |-> FALSE, rejected |-> TRUE]
  ELSE IF outcome = "ok"
  THEN [res |-> rows, sent |-> TRUE, failed |-> FALSE, rejected |-> FALSE]
  ELSE [res |-> ExecuteErrorRows(rows), sent |-> TRUE, failed |-> TRUE,
        rejected |-> FALSE]

----------------------------------------------------------------------------
(* query_set (src/app.py): labels *)

\* re.match('^\$(\d+)$', v): "$", one or more digits, then the end of the
\* string or its final newline
IsDollarDigits(w) ==
  Len(w) >= 2 /\ w[1] = "$" /\ \A i \in 2..Len(w) : w[i] \in DigitSet

ReMatch(v) ==
  \/ IsDollarDigits(v)
  \/ Len(v) > 0 /\ v[Len(v)] = "\n" /\ IsDollarDigits(SubSeq(v, 1, Len(v) - 1))

\* .group(1) of a successful match
ReGroup1(v) ==
  IF IsDollarDigits(v) THEN Tail(v) ELSE SubSeq(v, 2, Len(v) - 1)

\* any(re.match(r'^\$\d+$', v) for v in g_labels.values())
HasSpecialLabels(g_labels) == \E k \in DOMAIN g_labels : ReMatch(g_labels[k])

\* g_label_index: the placeholder's number minus one, 0 for any other template
GLabelIndex(v) == IF ReMatch(v) THEN PyInt(ReGroup1(v)) - 1 ELSE 0

\* row[g_label_index] if row and len(row) >= g_label_index
\*   else INVALID_LABEL_STR
ResolveLabel(v, row) ==
  IF Truthy(row) /\ Len(row) >= GLabelIndex(v)
  THEN PyIndex(row, GLabelIndex(v))
  ELSE [ok |-> TRUE, val |-> INVALID_LABEL_STR]

\* the key set query_set pads the connection labels to
PadKeys == {"dbhost", "dbenv", "dbname", "dbinstance", "dbport"}

ConnExtraLabels(cc) ==
  IF "extra_labels" \in DOMAIN cc THEN cc.extra_labels ELSE EmptyDict

\* c_labels without the padding of line 74
CLabelsUnpadded(cc) ==
  DictUnion([dbhost |-> cc.db_host, dbport |-> cc.db_port,
             dbname |-> cc.db_name],
            ConnExtraLabels(cc))

\* c_labels of one iteration
CLabels(cc) ==
  DictUnion([i \in PadKeys |-> INVALID_LABEL_STR],
            DictUnion([dbhost |-> cc.db_host, dbport |-> cc.db_port,
                       dbname |-> cc.db_name],
                      ConnExtraLabels(cc)))

GLabels(g) == IF "extra_labels" \in DOMAIN g THEN g.extra_labels ELSE EmptyDict

\* col: the explicit 1-based col minus one, else the running counter
ColOf(g, g_counter) ==
  IF "col" \in DOMAIN g THEN g.col - 1 ELSE g_counter

\* a counter that only the gauges without col advance
GCounterNextImplicitOnly(g, g_counter) ==
  IF "col" \in DOMAIN g THEN g_counter ELSE g_counter + 1

\* g_counter += 1, at the end of every gauge's turn
GCounterNext(g, g_counter) == g_counter + 1

----------------------------------------------------------------------------
(* query_set: the row-to-metric mapping.  A result is the list of set_gauge *)
(* calls made, in order, and whether an exception ended the mapping.        *)

Call(g, gi, ri, value, labels) ==
  [name |-> g.name, value |-> value, labels |-> labels, g |-> gi, row |-> ri]

\* if row and len(row) >= col: exporter.set_gauge(g["name"], row[col], labels)
EmitRow(g, gi, ri, col, row, labels) ==
  IF Truthy(row) /\ Len(row) >= col
  THEN IF PyIndex(row, col).ok
       THEN [calls |-> <<Call(g, gi, ri, PyIndex(row, col).val, labels)>>,
             raised |-> FALSE]
       ELSE [calls |-> <<>>, raised |-> TRUE]
  ELSE [calls |-> <<>>, raised |-> FALSE]

\* a static branch that takes res[0] without looking at res: IndexError on
\* an empty result set
StaticGaugeUnguarded(g, gi, col, res, c_labels) ==
  IF Truthy(res)
  THEN EmitRow(g, gi, 1, col, res[1], DictUnion(GLabels(g), c_labels))
  ELSE [calls |-> <<>>, raised |-> TRUE]

\* the static branch: only res[0]
StaticGauge(g, gi, col, res, c_labels) ==
  IF Truthy(res)
  THEN EmitRow(g, gi, 1, col, res[1], DictUnion(GLabels(g), c_labels))
  ELSE [calls |-> <<>>, raised |-> FALSE]

\* one turn of "for row in res" in the dynamic branch
DynamicRow(g, gi, ri, col, row, c_labels) ==
  LET g_labels == GLabels(g)
      r == [k \in DOMAIN g_labels |-> ResolveLabel(g_labels[k], row)]
      g_labels_aux == [k \in DOMAIN g_labels |-> r[k].val]
  IN IF \E k \in DOMAIN g_labels : ~r[k].ok
     THEN [calls |-> <<>>, raised |-> TRUE]
     ELSE EmitRow(g, gi, ri, col, row, DictUnion(g_labels_aux, c_labels))

RECURSIVE DynamicRows(_, _, _, _, _, _)
DynamicRows(g, gi, ri, col, res, c_labels) ==
  IF ri > Len(res) THEN [calls |-> <<>>, raised |-> FALSE]
  ELSE LET one == DynamicRow(g, gi, ri, col, res[ri], c_labels)
       IN IF one.raised THEN one
          ELSE LET rest == DynamicRows(g, gi, ri + 1, col, res, c_labels)
               IN [calls |-> one.calls \o rest.calls, raised |-> rest.raised]

\* one turn of "for g in config_query['gauges']"
MapGauge(g, gi, col, res, c_labels) ==
  IF ~HasSpecialLabels(GLabels(g))
  THEN StaticGauge(g, gi, col, res, c_labels)
  ELSE DynamicRows(g, gi, 1, col, res, c_labels)

\* the whole loop from gauge gi on; evals lists the gauges whose turn came
RECURSIVE MapGauges(_, _, _, _, _)
MapGauges(gauges, gi, g_counter, res, c_labels) ==
  IF gi > Len(gauges)
  THEN [calls |-> <<>>, evals |-> <<>>, raised |-> FALSE,
        g_counter |-> g_counter]
  ELSE LET g == gauges[gi]
           col == ColOf(g, g_counter)
           one == MapGauge(g, gi, col, res, c_labels)
           ev == [g |-> gi, col |-> col,
                  dyn |-> HasSpecialLabels(GLabels(g))]
       IN IF one.raised
          THEN [calls |-> one.calls, evals |-> <<ev>>, raised |-> TRUE,
                g_counter |-> g_counter]
          ELSE LET rest == MapGauges(gauges, gi + 1, GCounterNext(g, g_counter),
                                     res, c_labels)
               IN [calls |-> one.calls \o rest.calls,
                   evals |-> <<ev>> \o rest.evals,
                   raised |-> rest.raised,
                   g_counter |-> rest.g_counter]

RECURSIVE ApplyCalls(_, _)
ApplyCalls(s, calls) ==
  IF calls = <<>> THEN s
  ELSE ApplyCalls(set_gauge(s, Head(calls).name, Head(calls).value,
                            Head(calls).labels),
                  Tail(calls))

----------------------------------------------------------------------------
(* Startup (src/app.py): the label keys registered for every gauge *)

RECURSIVE ExtraLabelKeys(_, _)
ExtraLabelKeys(connections, i) ==
  IF i > Len(connections) THEN {}
  ELSE DOMAIN ConnExtraLabels(connections[i])
         \cup ExtraLabelKeys(connections, i + 1)

get_labels_list(connections) ==
  ExtraLabelKeys(connections, 1) \cup {"dbhost", "dbport", "dbname"}

RECURSIVE RegisterGauges(_, _, _, _)
RegisterGauges(reg, gauges, gi, max_conn_labels) ==
  IF gi > Len(gauges) THEN reg
  ELSE RegisterGauges(
         create_gauge(reg, gauges[gi].name,
                      max_conn_labels \cup DOMAIN GLabels(gauges[gi])),
         gauges, gi + 1, max_conn_labels)

RECURSIVE RegisterQueries(_, _, _, _)
RegisterQueries(reg, queries, qi, max_conn_labels) ==
  IF qi > Len(queries) THEN reg
  ELSE RegisterQueries(
         RegisterGauges(reg, queries[qi].gauges, 1, max_conn_labels),
         queries, qi + 1, max_conn_labels)

start_prometheus_exporter(queries, max_conn_labels) ==
  RegisterQueries(EmptyDict, queries, 1, max_conn_labels)

----------------------------------------------------------------------------
(* The configurations and database contents explored *)

\* $n
Placeholder(n) == <<"$", DigitChars[n + 1]>>

Lit == <<"l", "i", "t">>

\* the extra_labels of a gauge; has = FALSE: the gauge has no such key
GaugeLabelOptions ==
  {[has |-> FALSE, map |-> EmptyDict]}
  \cup {[has |-> TRUE, map |-> m] : m \in
         {[env |-> Placeholder(n)] : n \in 1..MaxColRef}
         \cup {[env |-> Lit],
               [env |-> Placeholder(1), kind |-> Lit],
               [env |-> Placeholder(2), kind |-> <<"$">>],
               [kind |-> <<"x", "$", "1">>],
               [dbhost |-> <<"g">>],
               [dbenv |-> <<"g">>],
               [dbenv |-> Placeholder(1)]}}

\* the col of a gauge, 1-based; 0: the gauge has no such key
GaugeColOptions == 0..MaxColRef

MkGauge(name, c, l) ==
  [name |-> name]
    @@ (IF c = 0 THEN EmptyDict ELSE [col |-> c])
    @@ (IF l.has THEN [extra_labels |-> l.map] ELSE EmptyDict)

FirstOfPairLabels ==
  {l \in GaugeLabelOptions :
     ~l.has \/ l.map \in {[env |-> Placeholder(1)], [env |-> Placeholder(2)],
                          [env |-> Placeholder(1), kind |-> Lit]}}

SecondOfPairLabels ==
  {l \in GaugeLabelOptions : ~l.has \/ l.map = [env |-> Placeholder(1)]}

GaugeLists ==
  {<<MkGauge("m1", c, l)>> : c \in GaugeColOptions, l \in GaugeLabelOptions}
  \cup {<<MkGauge("m1", c1, l1), MkGauge("m2", c2, l2)>> :
          c1 \in GaugeColOptions, l1 \in FirstOfPairLabels,
          c2 \in {0, 1}, l2 \in SecondOfPairLabels}
  \cup {<<MkGauge("m1", c1, l1), MkGauge("m2", 0, l2), MkGauge("m3", 0, l3)>> :
          c1 \in {0, MaxColRef}, l1 \in SecondOfPairLabels,
          l2 \in SecondOfPairLabels, l3 \in SecondOfPairLabels}

SelectText == <<" ", "S", "e", "l", "e", "c", "t", " ", "1">>

DropText == <<"d", "r", "o", "p">>

XSelectText == <<"x", "s", "e", "l", "e", "c", "t">>

MkQuery(name, text, gauges) ==
  [name |-> name, query |-> text, gauges |-> gauges]

MkConn(host) == [db_name |-> <<"n">>, db_host |-> host, db_port |-> <<"p">>]

ConnA == MkConn(<<"h">>)

ConnB == MkConn(<<"h">>) @@ [extra_labels |-> [dbenv |-> <<"e">>]]

ConnC ==
  MkConn(<<"h">>)
    @@ [extra_labels |-> [dbenv |-> <<"e">>, dbinstance |-> <<"i">>]]

ConnD == MkConn(<<"h">>) @@ [extra_labels |-> [dbhost |-> <<"x">>]]

ConnE == MkConn(<<"H">>) @@ [extra_labels |-> [region |-> <<"r">>]]

CollisionLists ==
  {gl \in GaugeLists :
     Len(gl) = 1 /\ "extra_labels" \in DOMAIN gl[1] /\ "col" \notin DOMAIN gl[1]}

\* configuration files with several query_set coroutines on a connection
SharedConfigs ==
  {[connections |-> <<ConnA>>,
    queries |-> <<MkQuery("q1", SelectText, <<MkGauge("m1", MaxColRef, l)>>),
                  MkQuery("q2", SelectText, <<MkGauge("m2", 1, l)>>)>>] :
     l \in {o \in GaugeLabelOptions : ~o.has}}

\* connections and queries of the configuration files explored
Configs ==
  {[connections |-> <<ConnA>>, queries |-> <<MkQuery("q1", SelectText, gl)>>] :
     gl \in GaugeLists}
  \cup {[connections |-> <<cc>>, queries |-> <<MkQuery("q1", SelectText, gl)>>] :
          cc \in {ConnB, ConnC, ConnD}, gl \in CollisionLists}
  \cup {[connections |-> <<ConnA, ConnE>>,
         queries |-> <<MkQuery("q1", SelectText, <<MkGauge("m1", 0, l)>>)>>] :
          l \in SecondOfPairLabels}
  \cup {[connections |-> <<ConnA>>,
         queries |-> <<MkQuery("q1", text, <<MkGauge("m1", 0, l)>>)>>] :
          text \in {DropText, XSelectText}, l \in SecondOfPairLabels}
  \cup {[connections |-> <<ConnA>>,
         queries |-> <<MkQuery("q1", SelectText, <<MkGauge("m1", 0, l)>>),
                       MkQuery("q2", SelectText, <<MkGauge("m2", 1, l)>>)>>] :
          l \in SecondOfPairLabels}
  \cup SharedConfigs

RowChars == <<"a", "b", "c", "d", "e", "f">>

\* the value in column j of row r: every cell of a table differs
Cell(r, j) == <<RowChars[r], DigitChars[j + 1]>>

\* fetchall(): the rows of one SELECT all have the same, non-zero, number
\* of columns
Tables ==
  {<<>>}
  \cup {[r \in 1..k |-> [j \in 1..n |-> Cell(r, j)]] :
          k \in 1..MaxRows, n \in 1..MaxCols}

----------------------------------------------------------------------------
(* The system *)

\* the coroutines of main(): one keeper per connection and one query_set per
\* connection and query
KeeperTask(c) == <<c, 0>>

QueryTask(c, q) == <<c, q>>

NoTask == <<0, 0>>

QueryTasks(conns, queries) ==
  {QueryTask(c, q) : c \in DOMAIN conns, q \in DOMAIN queries}

Tasks(conns, queries) ==
  {KeeperTask(c) : c \in DOMAIN conns} \cup QueryTasks(conns, queries)

NoCycle ==
  [kind |-> "none", c |-> 0, q |-> 0, res |-> <<>>, sent |-> FALSE,
   failed |-> FALSE, rejected |-> FALSE, opened |-> FALSE,
   calls |-> <<>>, evals |-> <<>>, raised |-> FALSE]

NoHeld == [session |-> NoConn, opened |-> FALSE]

InitWith(cfgs) ==
  /\ \E cfg \in cfgs :
       /\ config_connections = cfg.connections
       /\ config_queries = cfg.queries
       /\ registry = start_prometheus_exporter(
                       cfg.queries, get_labels_list(cfg.connections))
  /\ table \in Tables
  /\ sink = {}
  /\ conn = [c \in DOMAIN config_connections |-> NoConn]
  /\ last = NoCycle
  /\ pc = [t \in Tasks(config_connections, config_queries) |-> "sleep"]
  /\ running = NoTask
  /\ g_counters = [t \in QueryTasks(config_connections, config_queries) |-> 0]
  /\ held = [t \in QueryTasks(config_connections, config_queries) |-> NoHeld]
  /\ kfails = [c \in DOMAIN config_connections |-> 0]

Init == InitWith(Configs)

\* a coroutine that gives the event loop away between connect() and execute()
SuspendsAfterConnect(pos) == pos \in {"sleep", "connected"}

\* where a coroutine gives the event loop away: its only await is the sleep
Suspends(pos) == pos = "sleep"

\* the event loop resumes a coroutine only when no other one is running
CanRun(t) == pc[t] # "ended" /\ running \in {NoTask, t}

\* the coroutine the event loop is running once t stands at pos
Yield(t, pos) == IF Suspends(pos) THEN NoTask ELSE t

\* a keeper whose failed connect() raises through the loop
KeeperEscapesOnFailure(c0, ok) == c0 = NoConn /\ ~ok

\* does an exception leave the keeper's loop: connect() handles its own
\* errors and the loop handles Exception
KeeperEscapes(c0, ok) == FALSE

\* a query_set whose handler lets the exception of the mapping through
QueryEscapesWhenRaised(raised) == raised

\* does an exception leave query_set's loop: "except Exception" takes it
QueryEscapes(raised) == FALSE

\* where every coroutine stands once t ended an iteration: an exception that
\* leaves a coroutine leaves both gather() calls and ends the process
AfterIteration(p, t, escaped) ==
  IF escaped THEN [u \in DOMAIN p |-> "ended"] ELSE [p EXCEPT ![t] = "sleep"]

\* failed attempts in a row after one more keeper iteration
KeeperFails(c0, ok, n) ==
  IF c0 = NoConn /\ ~ok
  THEN (IF n < MaxKeeperFails THEN n + 1 ELSE n)
  ELSE 0

\* the keeper of connection c can start an iteration
KeeperReady(c) == CanRun(KeeperTask(c)) /\ pc[KeeperTask(c)] = "sleep"

\* the query_set of connection c and query q can start an iteration
QueryReady(c, q) == CanRun(QueryTask(c, q)) /\ pc[QueryTask(c, q)] = "sleep"

\* one iteration of oracle_keep_connection for connection c
KeeperStep(c) ==
  /\ KeeperReady(c)
  /\ \E ok \in BOOLEAN :
       /\ conn' = [conn EXCEPT ![c] = Connect(conn[c], ok, "keeper")]
       /\ kfails' = [kfails EXCEPT ![c] = KeeperFails(conn[c], ok, kfails[c])]
       /\ pc' = AfterIteration(pc, KeeperTask(c), KeeperEscapes(conn[c], ok))
  /\ UNCHANGED <<config_connections, config_queries, table, registry, sink,
                 last, running, g_counters, held>>

\* a query_set whose g_counter is set before the loop only
CounterKept(old) == old

\* "g_counter = 0" at the start of the mapping
CounterReset(old) == 0

\* close() and connect() of one iteration of query_set
Opening(c0, closeOk, connectOk) ==
  LET closed == Close(c0, closeOk)
  IN [session |-> Connect(closed, connectOk, "query"),
      opened |-> ConnectOpens(closed, connectOk)]

\* execute() and the mapping of one iteration of query_set
Running(session, cc, query, rows, outcome, gc0) ==
  LET ex == Execute(session, query.query, outcome, rows)
      m == MapGauges(query.gauges, 1, CounterReset(gc0), ex.res, CLabels(cc))
  IN [res |-> ex.res, sent |-> ex.sent,
      failed |-> ex.failed, rejected |-> ex.rejected,
      calls |-> m.calls, evals |-> m.evals, raised |-> m.raised,
      g_counter |-> m.g_counter]

\* one iteration of query_set: close, connect, execute and the mapping
Iteration(c0, cc, query, rows, closeOk, connectOk, outcome, gc0) ==
  LET o == Opening(c0, closeOk, connectOk)
  IN [session |-> o.session, opened |-> o.opened,
      run |-> Running(o.session, cc, query, rows, outcome, gc0)]

\* the record of an iteration of query_set
CycleRecord(c, q, opened, r) ==
  [kind |-> "query", c |-> c, q |-> q, res |-> r.res,
   sent |-> r.sent, failed |-> r.failed,
   rejected |-> r.rejected, opened |-> opened,
   calls |-> r.calls, evals |-> r.evals, raised |-> r.raised]

\* one iteration of query_set for connection c and query q
QueryCycle(c, q) ==
  /\ QueryReady(c, q)
  /\ \E closeOk \in BOOLEAN, connectOk \in BOOLEAN, outcome \in ExecOutcomes :
       \E it \in {Iteration(conn[c], config_connections[c], config_queries[q],
                            table, closeOk, connectOk, outcome,
                            g_counters[QueryTask(c, q)])} :
          /\ conn' = [conn EXCEPT ![c] = it.session]
          /\ sink' = ApplyCalls(sink, it.run.calls)
          /\ last' = CycleRecord(c, q, it.opened, it.run)
          /\ g_counters' = [g_counters EXCEPT ![QueryTask(c, q)] = it.run.g_counter]
          /\ pc' = AfterIteration(pc, QueryTask(c, q), QueryEscapes(it.run.raised))
  /\ UNCHANGED <<config_connections, config_queries, table, registry,
                 running, held, kfails>>

Next ==
  \/ \E c \in DOMAIN config_connections : KeeperStep(c)
  \/ \E c \in DOMAIN config_connections, q \in DOMAIN config_queries :
       QueryCycle(c, q)

Spec == Init /\ [][Next]_vars

----------------------------------------------------------------------------
(* The same coroutines, one statement group at a time: the event loop      *)
(* switches coroutines only where the running one awaits.                  *)

\* query_set up to its connect()
QueryOpen(c, q) ==
  /\ QueryReady(c, q)
  /\ \E closeOk \in BOOLEAN, connectOk \in BOOLEAN :
       \E o \in {Opening(conn[c], closeOk, connectOk)} :
          /\ conn' = [conn EXCEPT ![c] = o.session]
          /\ held' = [held EXCEPT ![QueryTask(c, q)] = o]
  /\ pc' = [pc EXCEPT ![QueryTask(c, q)] = "connected"]
  /\ running' = Yield(QueryTask(c, q), "connected")
  /\ UNCHANGED <<config_connections, config_queries, table, registry, sink,
                 last, g_counters, kfails>>

\* query_set from its execute() to its sleep
QueryRun(c, q) ==
  /\ CanRun(QueryTask(c, q))
  /\ pc[QueryTask(c, q)] = "connected"
  /\ \E outcome \in ExecOutcomes :
       \E r \in {Running(conn[c], config_connections[c], config_queries[q],
                         table, outcome, g_counters[QueryTask(c, q)])} :
          /\ sink' = ApplyCalls(sink, r.calls)
          /\ last' = CycleRecord(c, q,
                        held[QueryTask(c, q)].opened
                          /\ conn[c] = held[QueryTask(c, q)].session, r)
          /\ g_counters' = [g_counters EXCEPT ![QueryTask(c, q)] = r.g_counter]
          /\ pc' = AfterIteration(pc, QueryTask(c, q), QueryEscapes(r.raised))
  /\ held' = [held EXCEPT ![QueryTask(c, q)] = NoHeld]
  /\ running' = Yield(QueryTask(c, q), "sleep")
  /\ UNCHANGED <<config_connections, config_queries, table, registry, conn,
                 kfails>>

StepInit == InitWith(SharedConfigs)

StepNext ==
  \/ \E c \in DOMAIN config_connections : KeeperStep(c)
  \/ \E c \in DOMAIN config_connections, q \in DOMAIN config_queries :
       QueryOpen(c, q)
  \/ \E c \in DOMAIN config_connections, q \in DOMAIN config_queries :
       QueryRun(c, q)

StepSpec == StepInit /\ [][StepNext]_vars

----------------------------------------------------------------------------
(* What the claims speak about in the latest iteration *)

LastGauges == config_queries[last.q].gauges

LastCLabels == CLabels(config_connections[last.c])

\* the set_gauge calls of the latest iteration made for gauge gi
CallsOf(gi) == {i \in DOMAIN last.calls : last.calls[i].g = gi}

\* the set_gauge calls of the latest iteration made for row ri of gauge gi
CallsOfRow(gi, ri) == {i \in CallsOf(gi) : last.calls[i].row = ri}

\* the exception that ended the latest iteration's mapping came up in the
\* turn of the gauge of evals[i]
RaisedAt(i) == last.raised /\ i = Len(last.evals)

\* the number n of a template $n
PlaceholderNumber(v) == PyInt(ReGroup1(v))

\* what a template stands for on a row according to the specification:
\* column n of the row for $n, the sentinel when the row is shorter, and the
\* template itself when it is no placeholder
ExpectedLabel(v, row) ==
  IF ReMatch(v)
  THEN IF Len(row) >= PlaceholderNumber(v) /\ PlaceholderNumber(v) >= 1
       THEN row[PlaceholderNumber(v)]
       ELSE INVALID_LABEL_STR
  ELSE v

----------------------------------------------------------------------------
(* C1: in every set_gauge call, a label key that the gauge's extra_labels  *)
(* and the connection label set both hold carries the gauge-level value.   *)
C1_GaugeLabelWins ==
  last.kind = "query" =>
    \A i \in DOMAIN last.calls :
      LET call == last.calls[i]
          g_labels == GLabels(LastGauges[call.g])
      IN \A k \in (DOMAIN g_labels) \cap (DOMAIN LastCLabels) :
           call.labels[k] = ExpectedLabel(g_labels[k], last.res[call.row])

(* C2: in every set_gauge call, the keys of the label map are exactly the  *)
(* keys given to create_gauge for that metric at startup.                  *)
C2_LabelSchema ==
  last.kind = "query" =>
    \A i \in DOMAIN last.calls :
      DOMAIN last.calls[i].labels = registry[last.calls[i].name]

(* C3: for every gauge whose turn came, every row of the result set and    *)
(* every label template $n of the gauge, resolution does not raise and     *)
(* gives column n of the row, or the sentinel when the row has fewer than  *)
(* n columns.                                                              *)
C3_PlaceholderResolution ==
  last.kind = "query" =>
    \A i \in DOMAIN last.evals, ri \in DOMAIN last.res :
      LET g_labels == GLabels(LastGauges[last.evals[i].g])
      IN last.evals[i].dyn =>
           \A k \in DOMAIN g_labels :
             ReMatch(g_labels[k]) =>
               ResolveLabel(g_labels[k], last.res[ri])
                 = [ok |-> TRUE, val |-> ExpectedLabel(g_labels[k], last.res[ri])]

(* C4: in every set_gauge call of a gauge that has a placeholder label, a  *)
(* label whose template is no placeholder carries the template itself.     *)
C4_LiteralVerbatim ==
  last.kind = "query" =>
    \A i \in DOMAIN last.calls :
      LET call == last.calls[i]
          g_labels == GLabels(LastGauges[call.g])
      IN HasSpecialLabels(g_labels) =>
           \A k \in (DOMAIN g_labels) \ (DOMAIN LastCLabels) :
             ~ReMatch(g_labels[k]) => call.labels[k] = g_labels[k]

\* every placeholder of the gauge names a column that the row has
PlaceholdersWithin(g_labels, row) ==
  \A k \in DOMAIN g_labels :
    ReMatch(g_labels[k]) =>
      1 <= PlaceholderNumber(g_labels[k]) /\ PlaceholderNumber(g_labels[k]) <= Len(row)

(* C5: for a gauge with a placeholder label and value column col, a row    *)
(* with fewer than col+1 columns makes no set_gauge call and raises        *)
(* nothing, the gauges after it still get their turn, and no row makes     *)
(* more than one call.  (The rows taken here hold every column the gauge's *)
(* placeholders name, so that the value column alone decides.)             *)
C5_DynamicShortRowSkipped ==
  last.kind = "query" =>
    \A i \in DOMAIN last.evals :
      LET ev == last.evals[i]
      IN ev.dyn =>
           /\ \A ri \in DOMAIN last.res : Cardinality(CallsOfRow(ev.g, ri)) <= 1
           /\ \A ri \in DOMAIN last.res :
                /\ Len(last.res[ri]) < ev.col + 1
                /\ PlaceholdersWithin(GLabels(LastGauges[ev.g]), last.res[ri])
                =>
                  /\ CallsOfRow(ev.g, ri) = {}
                  /\ ~RaisedAt(i)
                  /\ i < Len(LastGauges) => Len(last.evals) > i

(* C6: a gauge without placeholder labels makes exactly one set_gauge call *)
(* in an iteration whose result set has a first row that holds the gauge's *)
(* value column, with the value of that first row.                         *)
C6_StaticOneObservation ==
  last.kind = "query" /\ last.res # <<>> =>
    \A gi \in DOMAIN LastGauges :
      LET g == LastGauges[gi]
          col == IF "col" \in DOMAIN g THEN g.col - 1 ELSE gi - 1
      IN ~HasSpecialLabels(GLabels(g)) /\ Len(last.res[1]) >= col + 1 =>
           /\ Cardinality(CallsOf(gi)) = 1
           /\ \A n \in CallsOf(gi) :
                last.calls[n].row = 1 /\ last.calls[n].value = last.res[1][col + 1]

(* C7: a gauge without placeholder labels whose first result row has fewer *)
(* than col+1 columns makes no set_gauge call and raises nothing, and the  *)
(* gauges after it still get their turn.                                   *)
C7_StaticShortFirstRow ==
  last.kind = "query" /\ last.res # <<>> =>
    \A i \in DOMAIN last.evals :
      LET ev == last.evals[i]
      IN ~ev.dyn /\ Len(last.res[1]) < ev.col + 1 =>
           /\ CallsOf(ev.g) = {}
           /\ ~RaisedAt(i)
           /\ i < Len(LastGauges) => Len(last.evals) > i

(* C8: a gauge with a placeholder label makes, for every row that has at   *)
(* least col+1 columns, exactly one set_gauge call, with that row's column *)
(* col as value and the placeholder labels taken from that row, the calls  *)
(* following the order of the rows.                                        *)
C8_DynamicFanOut ==
  last.kind = "query" =>
    /\ \A i \in DOMAIN last.evals, ri \in DOMAIN last.res :
         LET ev == last.evals[i]
             g_labels == GLabels(LastGauges[ev.g])
         IN ev.dyn /\ Len(last.res[ri]) >= ev.col + 1 =>
              /\ Cardinality(CallsOfRow(ev.g, ri)) = 1
              /\ \A n \in CallsOfRow(ev.g, ri) :
                   /\ last.calls[n].value = last.res[ri][ev.col + 1]
                   /\ \A k \in (DOMAIN g_labels) \ (DOMAIN LastCLabels) :
                        ReMatch(g_labels[k]) =>
                          last.calls[n].labels[k]
                            = ExpectedLabel(g_labels[k], last.res[ri])
    /\ \A m, n \in DOMAIN last.calls :
         m < n /\ last.calls[m].g = last.calls[n].g =>
           last.calls[m].row < last.calls[n].row

(* C9: in every iteration, a gauge without an explicit col whose turn      *)
(* comes uses as value column its zero-based position in the query's gauge *)
(* list, whatever the gauges before it were, and the value it passes to    *)
(* set_gauge is that column of the row.                                    *)
C9_ImplicitColumn ==
  last.kind = "query" =>
    /\ \A i \in DOMAIN last.evals :
         /\ last.evals[i].g = i
         /\ "col" \notin DOMAIN LastGauges[i] => last.evals[i].col = i - 1
    /\ \A n \in DOMAIN last.calls :
         "col" \notin DOMAIN LastGauges[last.calls[n].g] =>
           last.calls[n].value = last.res[last.calls[n].row][last.calls[n].g]

\* a third gauge without col emitted column 2 after a gauge with an
\* explicit col and a gauge of the other branch
C9_Witness ==
  /\ last.kind = "query"
  /\ Len(last.evals) >= 3
  /\ "col" \in DOMAIN LastGauges[1]
  /\ "col" \notin DOMAIN LastGauges[3]
  /\ last.evals[2].dyn # last.evals[3].dyn
  /\ last.evals[3].col = 2
  /\ CallsOf(3) # {}

(* C10: an iteration whose execute failed (no connection, or the database  *)
(* raised) makes no set_gauge call, ends its mapping without an exception  *)
(* and leaves every value held in the sink as it was.                      *)
C10_FailureKeepsValues ==
  [][last'.kind = "query" /\ last'.failed =>
       last'.calls = <<>> /\ ~last'.raised /\ sink' = sink]_vars

\* the database raised in an iteration while the sink held values
C10_Witness ==
  /\ last.kind = "query"
  /\ last.failed
  /\ last.sent
  /\ last.res = << <<>> >>
  /\ sink # {}

(* C11: an iteration whose result set has no rows makes no set_gauge call,  *)
(* whatever the branch of its gauges, every gauge of the query gets its    *)
(* turn and no exception ends the mapping.                                 *)
C11_EmptyResultNoObservation ==
  last.kind = "query" /\ last.res = <<>> =>
    /\ last.calls = <<>>
    /\ ~last.raised
    /\ Len(last.evals) = Len(LastGauges)

\* the query was sent and returned no rows, for a query that has a gauge of
\* each branch
C11_Witness ==
  /\ last.kind = "query"
  /\ last.sent /\ ~last.failed
  /\ last.res = <<>>
  /\ \E i, j \in DOMAIN last.evals : last.evals[i].dyn /\ ~last.evals[j].dyn

\* the text, after its leading white space, starts with the word select in
\* any mix of cases
IsSelectStatement(text) ==
  \E i \in 1..(Len(text) + 1) :
    /\ \A j \in 1..(i - 1) : text[j] \in WhiteSpace
    /\ i + Len(SelectWord) - 1 <= Len(text)
    /\ \A j \in 1..Len(SelectWord) : PyLowerChar(text[i + j - 1]) = SelectWord[j]

(* C12: a query text that is not a SELECT statement is never sent to the   *)
(* database: execute returns the empty result and the iteration makes no   *)
(* set_gauge call; and every text that is sent is a SELECT statement.      *)
C12_SelectOnly ==
  last.kind = "query" =>
    /\ ~IsSelectStatement(config_queries[last.q].query) =>
         ~last.sent /\ last.res = <<>> /\ last.calls = <<>>
    /\ last.sent => IsSelectStatement(config_queries[last.q].query)

\* a text that is no SELECT was turned down on an open connection
C12_Witness ==
  /\ last.kind = "query"
  /\ last.rejected
  /\ conn[last.c] # NoConn
  /\ ~IsSelectStatement(config_queries[last.q].query)

(* C13: every query that is sent to the database in an iteration runs on a *)
(* session that the connect() of that same iteration opened.               *)
C13_FreshSession ==
  last.kind = "query" /\ last.sent => last.opened

(* C17: connect() on a connected object keeps the session; a failed        *)
(* connect() leaves the object disconnected; close() on a disconnected     *)
(* object changes nothing; and close() twice leaves what close() once      *)
(* leaves.                                                                 *)
C17_ConnectCloseContract ==
  \A c \in DOMAIN conn :
    \A ok1 \in BOOLEAN, ok2 \in BOOLEAN :
      /\ conn[c] # NoConn => Connect(conn[c], ok1, "query") = conn[c]
      /\ conn[c] = NoConn => Connect(conn[c], FALSE, "query") = NoConn
      /\ conn[c] = NoConn => Close(conn[c], ok1) = conn[c]
      /\ Close(Close(conn[c], ok1), ok2) = Close(conn[c], ok1)

(* C20: every label map passed to set_gauge holds the five keys dbhost,    *)
(* dbport, dbname, dbenv and dbinstance; each carries the value of the     *)
(* connection's extra_labels when they hold the key, else the connection's *)
(* host, port or name for dbhost, dbport and dbname, else the sentinel.    *)
C20_ConnectionKeysPadded ==
  last.kind = "query" =>
    \A i \in DOMAIN last.calls :
      LET labels == last.calls[i].labels
          cc == config_connections[last.c]
          extra == IF "extra_labels" \in DOMAIN cc THEN cc.extra_labels
                   ELSE EmptyDict
      IN /\ {"dbhost", "dbport", "dbname", "dbenv", "dbinstance"}
              \subseteq DOMAIN labels
         /\ \A k \in {"dbhost", "dbport", "dbname", "dbenv", "dbinstance"} :
              labels[k] = IF k \in DOMAIN extra THEN extra[k]
                          ELSE IF k = "dbhost" THEN cc.db_host
                          ELSE IF k = "dbport" THEN cc.db_port
                          ELSE IF k = "dbname" THEN cc.db_name
                          ELSE INVALID_LABEL_STR

\* a call whose gauge holds dbenv itself while the connection does not
C20_Witness ==
  /\ last.kind = "query"
  /\ \E i \in DOMAIN last.calls :
       /\ "dbenv" \in DOMAIN GLabels(LastGauges[last.calls[i].g])
       /\ last.calls[i].labels["dbenv"] = INVALID_LABEL_STR
       /\ last.calls[i].labels["dbhost"] = config_connections[last.c].db_host

\* the query_set coroutine of the latest iteration
LastTask == QueryTask(last.c, last.q)

(* C14: after every iteration of query_set, whether it succeeded, its      *)
(* execution failed or its mapping raised, the coroutine stands at its     *)
(* sleep and can start its next iteration: it has no terminal state.       *)
C14_QueryTaskNeverStops ==
  last.kind = "query" =>
    /\ pc[LastTask] = "sleep"
    /\ QueryReady(last.c, last.q)

\* the mapping of the latest iteration raised, and the coroutine sleeps
C14_Witness ==
  /\ last.kind = "query"
  /\ last.raised
  /\ pc[LastTask] = "sleep"

\* the latest iteration failed: no session, a database error or an exception
\* of the mapping
LastIterationFailed ==
  /\ last.kind = "query"
  /\ \/ last.failed
     \/ last.raised
     \/ ~last.sent /\ ~last.rejected

(* C15: after a failed iteration of one query_set coroutine, the keeper    *)
(* and every other query_set coroutine still stand at their sleep and      *)
(* their next iteration can start.                                         *)
C15_FailureIsolation ==
  LastIterationFailed =>
    \A c \in DOMAIN config_connections :
      /\ KeeperReady(c)
      /\ \A q \in DOMAIN config_queries :
           QueryTask(c, q) # LastTask =>
             QueryReady(c, q)

\* the mapping of q1 raised in a run in which q2 made its observation
C15_Witness ==
  /\ Len(config_queries) = 2
  /\ last.kind = "query" /\ last.q = 1 /\ last.raised
  /\ \E o \in sink : o.name = config_queries[2].gauges[1].name
  /\ pc[QueryTask(last.c, 2)] = "sleep"

(* C16: the keeper of every connection always stands at its sleep with its *)
(* next connect() attempt to come, and failed attempts end no coroutine.   *)
C16_KeeperKeepsTrying ==
  \A c \in DOMAIN config_connections :
    /\ KeeperReady(c)
    /\ kfails[c] > 0 => \A t \in DOMAIN pc : pc[t] # "ended"

\* the keeper failed as many times in a row as are told apart
C16_Witness ==
  \E c \in DOMAIN config_connections :
    /\ kfails[c] = MaxKeeperFails
    /\ conn[c] = NoConn
    /\ pc[KeeperTask(c)] = "sleep"

(* C18: two iterations in a row of the same query_set coroutine that get   *)
(* the same result set make the same set_gauge calls, in the same order    *)
(* with the same names, values and labels, from the same columns.          *)
C18_MappingDeterminism ==
  [][(/\ last.kind = "query" /\ last'.kind = "query"
      /\ last'.c = last.c /\ last'.q = last.q
      /\ last'.res = last.res)
     => /\ last'.calls = last.calls
        /\ last'.evals = last.evals
        /\ last'.raised = last.raised]_vars

\* an iteration that made calls left its g_counter above 0, with a gauge
\* whose column is the counter
C18_Witness ==
  /\ last.kind = "query"
  /\ ~last.raised
  /\ Len(last.calls) >= 2
  /\ g_counters[LastTask] >= 2
  /\ \E i \in DOMAIN LastGauges : "col" \notin DOMAIN LastGauges[i]

(* C19: while a query_set coroutine stands between its connect() and its   *)
(* execute(), it is the one the event loop runs, every other coroutine     *)
(* stands at its sleep and the connection holds what its own close() and   *)
(* connect() left.                                                         *)
C19_CycleAtomic ==
  \A t \in DOMAIN held :
    pc[t] = "connected" =>
      /\ running = t
      /\ conn[t[1]] = held[t].session
      /\ \A u \in DOMAIN pc : u # t => pc[u] = "sleep"

\* a coroutine opened its session after the other query of the connection
\* had an iteration
C19_Witness ==
  \E t \in DOMAIN held :
    /\ pc[t] = "connected"
    /\ held[t].opened
    /\ last.kind = "query"
    /\ last.c = t[1] /\ last.q # t[2]

====
